---------------------------- MODULE Spec2Model ----------------------------
(***************************************************************************)
(* A model of the backtest simulator (backtest.py) and the signal combiner *)
(* (combo_signals.py) of Multiple-Strategy-Crypto.                         *)
(*                                                                         *)
(* Conventions.  Python index i of an array is index i + 1 of the TLA+     *)
(* sequence that models it.  The floating-point numbers of the program are *)
(* modelled as exact rationals <<numerator, denominator>> in lowest terms  *)
(* with a positive denominator; rounding is outside the model.             *)
(***************************************************************************)
EXTENDS Integers, Sequences, FiniteSets, TLC

(***************************************************************************)
(* Bounds of the model.                                                    *)
(***************************************************************************)
\* longest price / signal series of a backtest
MaxLen == 3
\* longest signal series of a holding-period scan over flat prices
MaxScanLen == 5
\* most signal series combine_signals is given
MaxStrategies == 2
\* longest signal series combine_signals is given
MaxBars == 2
\* largest min_holding_period
MaxHold == 3

\* the close prices of a bar
PriceValues == {1, 2}

\* values a signal element takes: +1 long, -1 short, 0 unresolved
SignalValues == {-1, 0, 1}

(***************************************************************************)
(* Exact rational arithmetic.                                              *)
(***************************************************************************)
Abs(x) == IF x < 0 THEN -x ELSE x

RECURSIVE GCD(_, _)
GCD(a, b) == IF b = 0 THEN a ELSE GCD(b, a % b)

\* n/d in lowest terms, d # 0
Rat(n, d) ==
    LET g == GCD(Abs(n), Abs(d))
        s == IF d < 0 THEN -1 ELSE 1
    IN  <<(s * n) \div g, (s * d) \div g>>

FromInt(n) == <<n, 1>>
Zero == <<0, 1>>
One == <<1, 1>>

RMul(a, b) ==
    LET g1 == GCD(Abs(a[1]), b[2])
        g2 == GCD(Abs(b[1]), a[2])
    IN  Rat((a[1] \div g1) * (b[1] \div g2), (a[2] \div g2) * (b[2] \div g1))
RAdd(a, b) == Rat(a[1] * b[2] + b[1] * a[2], a[2] * b[2])
RSub(a, b) == Rat(a[1] * b[2] - b[1] * a[2], a[2] * b[2])
RDiv(a, b) == Rat(a[1] * b[2], a[2] * b[1])
RLess(a, b) == a[1] * b[2] < b[1] * a[2]

\* a to the power k, k >= 0
RECURSIVE RPow(_, _)
RPow(a, k) == IF k = 0 THEN One ELSE RMul(a, RPow(a, k - 1))

(***************************************************************************)
(* backtest.py, the pure parts.                                            *)
(***************************************************************************)

\* pct_change with the "- 1" forgotten: the price ratio
pct_change_ratio(prices) ==
    [i \in 1..Len(prices) |->
        IF i = 1 THEN Zero
        ELSE RDiv(FromInt(prices[i]), FromInt(prices[i-1]))]

\* close_price.pct_change().fillna(0), and the loop of _calculate_performance
\* that computes the same: r[0] = 0, r[i] = prices[i] / prices[i-1] - 1.
pct_change(prices) ==
    [i \in 1..Len(prices) |->
        IF i = 1 THEN Zero
        ELSE RSub(RDiv(FromInt(prices[i]), FromInt(prices[i-1])), One)]

\* backtest_strategy_optimized: position[0] = raw_signal[0]; a later 0 holds
\* the previous position.
forward_fill(raw_signal) ==
    LET position[i \in 1..Len(raw_signal)] ==
            IF i = 1 THEN raw_signal[1]
            ELSE IF raw_signal[i] # 0 THEN raw_signal[i] ELSE position[i-1]
    IN  position

\* raw_signal.ffill().fillna(0) of the reference path: pandas' ffill fills
\* missing (NaN) elements only, and a signal in {+1, -1, 0} has none, so
\* every element, a 0 included, is kept.
ffill_fillna(raw_signal) == [i \in 1..Len(raw_signal) |-> raw_signal[i]]

\* diff against a position of 0 before bar 0: opening counts as a change
diff_prepend(position) ==
    [i \in 1..Len(position) |->
        IF i = 1 THEN position[1] ELSE position[i] - position[i-1]]

\* pos_change[0] = 0, pos_change[i] = position[i] - position[i-1]
\* (the loop of the optimized path, position.diff().fillna(0) of the other).
diff(position) ==
    [i \in 1..Len(position) |->
        IF i = 1 THEN 0 ELSE position[i] - position[i-1]]

\* hold_step with "<=" for "<": a trade exactly min_holding_period bars
\* after the last one is cancelled too
hold_step_inclusive(st, i, min_holding_period) ==
    IF st.change_array[i] # 0
    THEN IF st.last_trade_i >= 1
         THEN IF (i - st.last_trade_i) <= min_holding_period
              THEN [st EXCEPT
                       !.change_array[i] = 0,
                       !.position_array[i] =
                           st.position_array[IF i = 1 THEN Len(st.position_array)
                                             ELSE i - 1]]
              ELSE [st EXCEPT !.last_trade_i = i]
         ELSE [st EXCEPT !.last_trade_i = i]
    ELSE st

\* One iteration of the scan of _apply_min_holding_period (and of the same
\* loop in backtest_strategy) at index i.  st is the loop's state:
\* position_array, change_array, last_trade_i.  last_trade_i = 0 is "no
\* previous trade" (Python's -1, or None in backtest_strategy).
\* position_array[i-1] at Python index 0 is the last element.
hold_step(st, i, min_holding_period) ==
    IF st.change_array[i] # 0
    THEN IF st.last_trade_i >= 1
         THEN IF (i - st.last_trade_i) < min_holding_period
              THEN [st EXCEPT
                       !.change_array[i] = 0,
                       !.position_array[i] =
                           st.position_array[IF i = 1 THEN Len(st.position_array)
                                             ELSE i - 1]]
              ELSE [st EXCEPT !.last_trade_i = i]
         ELSE [st EXCEPT !.last_trade_i = i]
    ELSE st

RECURSIVE hold_scan(_, _, _)
hold_scan(st, i, min_holding_period) ==
    IF i > Len(st.position_array) THEN st
    ELSE hold_scan(hold_step(st, i, min_holding_period), i + 1, min_holding_period)

\* _apply_min_holding_period: the scan from index 0 with no previous trade.
apply_min_holding_period(position_array, change_array, min_holding_period) ==
    hold_scan([position_array |-> position_array,
               change_array |-> change_array,
               last_trade_i |-> 0], 1, min_holding_period)

\* "if min_holding_period > 0:" of both paths
enforce_holding(position, pos_change, min_holding_period) ==
    IF min_holding_period > 0
    THEN LET st == apply_min_holding_period(position, pos_change, min_holding_period)
         IN  [position |-> st.position_array, pos_change |-> st.change_array]
    ELSE [position |-> position, pos_change |-> pos_change]

\* no lag: the position of the bar itself
shift_none(positions) == [i \in 1..Len(positions) |-> positions[i]]

\* positions shifted by one bar, 0 entering bar 0
\* (shifted_positions of _calculate_performance, position.shift(1, fill_value=0))
shift(positions) ==
    [i \in 1..Len(positions) |-> IF i = 1 THEN 0 ELSE positions[i-1]]

\* shifted_positions * returns
strategy_returns_of(positions, returns) ==
    LET shifted == shift(positions)
    IN  [i \in 1..Len(positions) |-> RMul(FromInt(shifted[i]), returns[i])]

\* fee_factors with a loop one bar short: no fee at the last bar
fee_factors_short(position_changes, trading_fee_pct) ==
    [i \in 1..Len(position_changes) |->
        IF position_changes[i] # 0 /\ i < Len(position_changes)
        THEN RSub(One, trading_fee_pct) ELSE One]

\* fee_factors: 1 - fee at a bar whose position_change is nonzero, else 1
fee_factors_of(position_changes, trading_fee_pct) ==
    [i \in 1..Len(position_changes) |->
        IF position_changes[i] # 0 THEN RSub(One, trading_fee_pct) ELSE One]

\* growth_factors[i] * fee_factors[i]
combined_factors(strategy_returns, fee_factors) ==
    [i \in 1..Len(strategy_returns) |->
        RMul(RAdd(One, strategy_returns[i]), fee_factors[i])]

\* "portfolio_value *= growth_factors[i] * fee_factors[i]" from bar i on
RECURSIVE compound(_, _, _)
compound(portfolio_value, factors, i) ==
    IF i > Len(factors) THEN portfolio_value
    ELSE compound(RMul(portfolio_value, factors[i]), factors, i + 1)

\* the number of nonzero elements of position_changes
count_trades(position_changes) ==
    Cardinality({i \in 1..Len(position_changes) : position_changes[i] # 0})

\* _calculate_performance: the returns come from prices, whatever the caller
\* holds in its own "returns".
calculate_performance(prices, positions, position_changes, trading_fee_pct, initial_capital) ==
    LET returns == pct_change(prices)
        strategy_returns == strategy_returns_of(positions, returns)
        fee_factors == fee_factors_of(position_changes, trading_fee_pct)
        portfolio_value ==
            compound(FromInt(initial_capital),
                     combined_factors(strategy_returns, fee_factors), 1)
    IN  [returns |-> returns,
         strategy_returns |-> strategy_returns,
         total_return |-> RSub(RDiv(portfolio_value, FromInt(initial_capital)), One),
         final_portfolio_value |-> portfolio_value,
         num_trades |-> count_trades(position_changes)]

(***************************************************************************)
(* The state of one backtest call.                                         *)
(***************************************************************************)
VARIABLES
    df,                   \* the frame: its length, columns and column data
    initial_capital,
    min_holding_period,
    precomputed_returns,  \* [is_none, values]
    trading_fee_pct,      \* config.TRADING_FEE_PCT
    pc,                   \* "call", "fallback", "done" or "raised"
    path,                 \* the path that ended the call: "optimized" or "reference"
    position,             \* the position series the result was computed from
    pos_change,           \* its position changes, after enforcement
    returns,              \* the per-bar returns the result was compounded from
    strategy_returns,     \* the lagged position times the returns
    result,               \* [kind |-> "none"] or the returned triple
    bh,                   \* buy_and_hold on the same frame: its outcome
    \* one combine_signals call
    signal_dfs,           \* the signal series, one per strategy
    buy_operator,
    sell_operator,
    cpc,                  \* "idle", "call" or "done"
    buy_mask,
    sell_mask,
    final_signal,         \* the returned series
    \* the SignalCache
    cache,                \* the stored entries [key, signal], in insertion order
    max_size,
    source_calls,         \* the calls of strategy functions made by get so far
    last_get,             \* the last operation on the cache and what it returned
    \* one generate_param_dicts call
    param_grid,           \* [is_none, items]: the (key, value list) items in order
    gpc,                  \* "idle", "call" or "done"
    param_dicts,          \* the returned list of dicts
    \* one candidate evaluation (_evaluate_strategy_params)
    penalty_factor,       \* meta_params["penalty_factor"]
    sharpe_ratio_weight,  \* meta_params["sharpe_ratio_weight"]
    score,                \* [kind |-> "none"] or the score of the candidate
    \* one search of an optimizer
    optimizer,            \* the function that runs the search
    param_combinations,   \* the candidate tuples, in the order of the loops
    evaluations,          \* what the evaluation of each candidate gives
    cursor,               \* the candidates the sequential loop has been through
    best,                 \* best params, score, portfolio value and trades so far
    futures,              \* the submitted evaluations that have not completed
    results,              \* the results collected from completed evaluations
    returned,             \* [kind |-> "none"] or what the search returned
    opc                   \* "idle", "search", "collect", "returned" or "raised"

btVars == <<df, initial_capital, min_holding_period, precomputed_returns,
            trading_fee_pct, pc, path, position, pos_change, returns,
            strategy_returns, result, bh>>

inputVars == <<df, initial_capital, min_holding_period, precomputed_returns,
               trading_fee_pct>>

combVars == <<signal_dfs, buy_operator, sell_operator, cpc, buy_mask,
              sell_mask, final_signal>>

cacheVars == <<cache, max_size, source_calls, last_get>>

gridVars == <<param_grid, gpc, param_dicts>>

scoreVars == <<penalty_factor, sharpe_ratio_weight, score>>

optVars == <<optimizer, param_combinations, evaluations, cursor, best,
             futures, results, returned, opc>>

VARIABLES
    promising_meta_params, \* the meta-parameter dicts kept by the first pass, by number
    batch_size,           \* the batch size of the second pass
    batch_start,          \* i of for i in range(0, len(param_combinations), batch_size)
    batch,                \* what is left of the batch being evaluated
    evaluated             \* the candidates evaluated by the second pass, in order

pruneVars == <<promising_meta_params, batch_size, batch_start, batch, evaluated>>

VARIABLES
    row                   \* the row of train_results under test, or [kind |-> "none"]

testVars == <<row>>

vars == <<btVars, combVars, cacheVars, gridVars, scoreVars, optVars, pruneVars, testVars>>

\* what a backtest, a combine_signals call, the cache and a grid expansion
\* leave alone
exceptBacktest == <<combVars, cacheVars, gridVars, scoreVars, optVars, pruneVars, testVars>>
exceptCombine == <<btVars, cacheVars, gridVars, scoreVars, optVars, pruneVars, testVars>>
exceptCache == <<btVars, combVars, gridVars, scoreVars, optVars, pruneVars, testVars>>
exceptGrid == <<btVars, combVars, cacheVars, scoreVars, optVars, pruneVars, testVars>>
exceptSearch == <<btVars, combVars, cacheVars, gridVars, scoreVars, pruneVars, testVars>>

\* config.INITIAL_CAPITAL, the capital every caller passes
INITIAL_CAPITAL == 10000

\* The fee is read from config.TRADING_FEE_PCT (0.001 as shipped).  The model
\* draws it from no fee and a fee of one tenth: powers of 999/1000 leave the
\* integers TLC computes with.
FeeValues == {<<0, 1>>, <<1, 10>>}

PriceSeqs(n) == [1..n -> PriceValues]
SignalSeqs(n) == [1..n -> SignalValues]

\* A frame of n rows with the columns cols.  The data of a column the frame
\* lacks is never read and is modelled empty.
Frame(n, cols, signal, close_price) ==
    [len |-> n,
     columns |-> cols,
     signal |-> IF "signal" \in cols THEN signal ELSE <<>>,
     close_price |-> IF "close_price" \in cols THEN close_price ELSE <<>>]

None == [is_none |-> TRUE, values |-> <<>>]
Series(values) == [is_none |-> FALSE, values |-> values]

\* the returns of a flat series
flat_returns(n) == [i \in 1..n |-> Zero]

\* The spec's always-long scenario: these prices under the signal +1.
ScenarioPrices == <<100, 110, 99, 130>>

\* The calls the model makes: a frame of up to MaxLen rows with or without
\* each column, and precomputed_returns absent, the frame's own returns (what
\* every caller in the repository passes), or the returns of another series
\* of the same length.
Calls ==
    UNION {
        \* both columns
        {[df |-> Frame(n, {"signal", "close_price"}, s, p), pre |-> pre] :
            s \in SignalSeqs(n), p \in PriceSeqs(n),
            pre \in {None, Series(flat_returns(n))}}
        \cup {[df |-> Frame(n, {"signal", "close_price"}, s, p),
               pre |-> Series(pct_change(p))] :
            s \in SignalSeqs(n), p \in PriceSeqs(n)}
        \* no close_price column
        \cup {[df |-> Frame(n, {"signal"}, s, <<>>), pre |-> None] :
            s \in SignalSeqs(n)}
        \cup {[df |-> Frame(n, {"signal"}, s, <<>>),
               pre |-> Series(pct_change(q))] :
            s \in SignalSeqs(n), q \in PriceSeqs(n)}
        \* no signal column
        \cup {[df |-> Frame(n, cols, <<>>, p), pre |-> pre] :
            cols \in {{}, {"close_price"}}, p \in PriceSeqs(n),
            pre \in {None, Series(flat_returns(n))}}
        : n \in 0..MaxLen }
    \cup {[df |-> Frame(4, {"signal", "close_price"}, <<1, 1, 1, 1>>, ScenarioPrices),
           pre |-> None]}

\* The spec's holding-period scenario: position changes at Python indices
\* 2, 3 and 7.
ScenarioSignal == <<1, 1, -1, 1, 1, 1, 1, -1>>

\* the flat price series of n bars
flat_prices(n) == [i \in 1..n |-> 1]

\* The calls of the holding-period scans: any signal series of up to
\* MaxScanLen bars, and the scenario's, over flat prices (the optimized path)
\* or with no close_price column and flat precomputed returns (the reference
\* path).
ScanCalls ==
    LET signals == UNION {SignalSeqs(n) : n \in 0..MaxScanLen} \cup {ScenarioSignal}
    IN  {[df |-> Frame(Len(s), {"signal", "close_price"}, s, flat_prices(Len(s))),
          pre |-> None] : s \in signals}
        \cup {[df |-> Frame(Len(s), {"signal"}, s, <<>>),
               pre |-> Series(flat_returns(Len(s)))] : s \in signals}

NoResult == [kind |-> "none"]

\* no combine_signals call is under way
CombinerIdle ==
    /\ signal_dfs = <<>>
    /\ buy_operator = "AND"
    /\ sell_operator = "AND"
    /\ cpc = "idle"
    /\ buy_mask = <<>>
    /\ sell_mask = <<>>
    /\ final_signal = <<>>

\* no SignalCache is in use
CacheIdle ==
    /\ cache = <<>>
    /\ max_size = 0
    /\ source_calls = 0
    /\ last_get = NoResult

\* no generate_param_dicts call is under way
GridIdle ==
    /\ param_grid = [is_none |-> TRUE, items |-> <<>>]
    /\ gpc = "idle"
    /\ param_dicts = <<>>

\* no candidate is being scored
ScoreIdle ==
    /\ penalty_factor = Zero
    /\ sharpe_ratio_weight = Zero
    /\ score = NoResult

\* no search is under way
SearchIdle ==
    /\ optimizer = "none"
    /\ param_combinations = <<>>
    /\ evaluations = <<>>
    /\ cursor = 0
    /\ best = NoResult
    /\ futures = {}
    /\ results = <<>>
    /\ returned = NoResult
    /\ opc = "idle"

\* optimize_strategy_combo_improved is not running
PruneIdle ==
    /\ promising_meta_params = <<>>
    /\ batch_size = 0
    /\ batch_start = 0
    /\ batch = <<>>
    /\ evaluated = <<>>

\* process_currency is not testing a row
TestIdle ==
    /\ row = NoResult

\* backtest_strategy is entered with a call of calls and a holding period of
\* holds
EnteredBacktest(calls, holds) ==
    /\ \E c \in calls :
        /\ df = c.df
        /\ precomputed_returns = c.pre
    /\ initial_capital = INITIAL_CAPITAL
    /\ min_holding_period \in holds
    /\ trading_fee_pct \in FeeValues
    /\ pc = "call"
    /\ path = "none"
    /\ position = <<>>
    /\ pos_change = <<>>
    /\ returns = <<>>
    /\ strategy_returns = <<>>
    /\ result = NoResult
    /\ bh = NoResult

\* the state in which backtest_strategy is entered with a call of calls
Entered(calls) ==
    /\ EnteredBacktest(calls, 0..MaxHold)
    /\ CombinerIdle
    /\ CacheIdle
    /\ GridIdle
    /\ ScoreIdle
    /\ SearchIdle
    /\ PruneIdle
    /\ TestIdle

InitBacktest == Entered(Calls)

InitHolding == Entered(ScanCalls)

\* what backtest_strategy_optimized does with the call: the exception it
\* raises, or the series it works on and the triple it returns
backtest_strategy_optimized ==
    IF "signal" \notin df.columns THEN [raised |-> "ValueError"]
    ELSE IF "close_price" \notin df.columns THEN [raised |-> "KeyError"]
    ELSE IF df.len = 0 THEN [raised |-> "IndexError"]
    ELSE
        LET raw_position == forward_fill(df.signal)
            held == enforce_holding(raw_position, diff(raw_position),
                                    min_holding_period)
            perf == calculate_performance(df.close_price, held.position,
                        held.pos_change, trading_fee_pct, initial_capital)
        IN  [raised |-> "",
             position |-> held.position,
             pos_change |-> held.pos_change,
             returns |-> perf.returns,
             strategy_returns |-> perf.strategy_returns,
             result |-> [kind |-> "value",
                         total_return |-> perf.total_return,
                         final_portfolio_value |-> perf.final_portfolio_value,
                         num_trades |-> perf.num_trades]]

\* the body of backtest_strategy after its except clause
backtest_strategy_reference ==
    IF "signal" \notin df.columns THEN [raised |-> "ValueError"]
    ELSE IF precomputed_returns.is_none /\ "close_price" \notin df.columns
    THEN [raised |-> "KeyError"]
    ELSE
        LET rets == IF precomputed_returns.is_none
                    THEN pct_change(df.close_price)
                    ELSE precomputed_returns.values
            raw_position == ffill_fillna(df.signal)
            held == enforce_holding(raw_position, diff(raw_position),
                                    min_holding_period)
            num_trades == count_trades(held.pos_change)
            strat == strategy_returns_of(held.position, rets)
            factors == combined_factors(strat,
                           fee_factors_of(held.pos_change, trading_fee_pct))
            \* initial_capital * cumulative_factor.iloc[-1], or initial_capital
            final_portfolio_value ==
                IF Len(factors) > 0
                THEN RMul(FromInt(initial_capital), compound(One, factors, 1))
                ELSE FromInt(initial_capital)
        IN  [raised |-> "",
             position |-> held.position,
             pos_change |-> held.pos_change,
             returns |-> rets,
             strategy_returns |-> strat,
             result |-> [kind |-> "value",
                         total_return |->
                             RSub(RDiv(final_portfolio_value,
                                       FromInt(initial_capital)), One),
                         final_portfolio_value |-> final_portfolio_value,
                         num_trades |-> num_trades]]

\* the call ends with the series and the triple of out, computed on path p
Return(out, p) ==
    /\ pc' = "done"
    /\ path' = p
    /\ position' = out.position
    /\ pos_change' = out.pos_change
    /\ returns' = out.returns
    /\ strategy_returns' = out.strategy_returns
    /\ result' = out.result

\* backtest_strategy, the try block: the optimized path returns, or raises
\* into the except clause, which prints a warning and goes on.
TryOptimized ==
    /\ pc = "call"
    /\ LET out == backtest_strategy_optimized
       IN  IF out.raised = ""
           THEN Return(out, "optimized")
           ELSE /\ pc' = "fallback"
                /\ UNCHANGED <<path, position, pos_change, returns,
                               strategy_returns, result>>
    /\ UNCHANGED <<inputVars, bh, exceptBacktest>>

\* backtest_strategy after a failed try: the reference path returns or raises.
Reference ==
    /\ pc = "fallback"
    /\ LET out == backtest_strategy_reference
       IN  IF out.raised = ""
           THEN Return(out, "reference")
           ELSE /\ pc' = "raised"
                /\ UNCHANGED <<path, position, pos_change, returns,
                               strategy_returns, result>>
    /\ UNCHANGED <<inputVars, bh, exceptBacktest>>

\* buy_and_hold without its "len(df) == 0" guard: iloc[0] raises on no rows
buy_and_hold_unguarded ==
    IF "close_price" \notin df.columns \/ df.len = 0 THEN [kind |-> "raised"]
    ELSE
        LET total_return ==
                RSub(RDiv(FromInt(df.close_price[df.len]),
                          FromInt(df.close_price[1])), One)
        IN  [kind |-> "value", total_return |-> total_return,
             final_portfolio_value |->
                 RMul(FromInt(initial_capital), RAdd(One, total_return))]

\* buy_and_hold on the frame of the call
buy_and_hold ==
    IF df.len = 0
    THEN [kind |-> "value", total_return |-> Zero,
          final_portfolio_value |-> FromInt(initial_capital)]
    ELSE IF "close_price" \notin df.columns THEN [kind |-> "raised"]
    ELSE
        LET buy_price == df.close_price[1]
            sell_price == df.close_price[df.len]
            total_return == RSub(RDiv(FromInt(sell_price), FromInt(buy_price)), One)
        IN  [kind |-> "value", total_return |-> total_return,
             final_portfolio_value |->
                 RMul(FromInt(initial_capital), RAdd(One, total_return))]

BuyAndHold ==
    /\ pc \in {"done", "raised"}
    /\ bh = NoResult
    /\ bh' = buy_and_hold
    /\ UNCHANGED <<inputVars, pc, path, position, pos_change, returns,
                   strategy_returns, result, exceptBacktest>>

NextBacktest == TryOptimized \/ Reference \/ BuyAndHold

SpecBacktest == InitBacktest /\ [][NextBacktest]_vars

NextHolding == TryOptimized \/ Reference

SpecHolding == InitHolding /\ [][NextHolding]_vars

(***************************************************************************)
(* combo_signals.py.                                                       *)
(***************************************************************************)

\* the number of rows of the concatenated frame
bars(dfs) == IF Len(dfs) = 0 THEN 0 ELSE Len(dfs[1])

\* (combined == v).all(axis=1) over the columns from k on
RECURSIVE all_equal(_, _, _, _)
all_equal(dfs, v, i, k) ==
    IF k > Len(dfs) THEN TRUE
    ELSE (dfs[k][i] = v) /\ all_equal(dfs, v, i, k + 1)

\* (combined == v).any(axis=1) over the columns from k on
RECURSIVE any_equal(_, _, _, _)
any_equal(dfs, v, i, k) ==
    IF k > Len(dfs) THEN FALSE
    ELSE (dfs[k][i] = v) \/ any_equal(dfs, v, i, k + 1)

\* masks with the sell side on the buy side's operator
masks_one_operator(dfs, buy_op, sell_op) ==
    [buy |-> [i \in 1..bars(dfs) |->
                 IF buy_op = "AND" THEN all_equal(dfs, 1, i, 1)
                 ELSE any_equal(dfs, 1, i, 1)],
     sell |-> [i \in 1..bars(dfs) |->
                 IF buy_op = "AND" THEN all_equal(dfs, -1, i, 1)
                 ELSE any_equal(dfs, -1, i, 1)]]

\* buy_mask and sell_mask: "AND" is all, any other operator is any
masks(dfs, buy_op, sell_op) ==
    [buy |-> [i \in 1..bars(dfs) |->
                 IF buy_op = "AND" THEN all_equal(dfs, 1, i, 1)
                 ELSE any_equal(dfs, 1, i, 1)],
     sell |-> [i \in 1..bars(dfs) |->
                 IF sell_op = "AND" THEN all_equal(dfs, -1, i, 1)
                 ELSE any_equal(dfs, -1, i, 1)]]

\* the two assignments in the other order: buy overwrites sell
assign_buy_last(buy, sell) ==
    LET zeros == [i \in 1..Len(buy) |-> 0]
        sold == [i \in 1..Len(buy) |-> IF sell[i] THEN -1 ELSE zeros[i]]
    IN  [i \in 1..Len(buy) |-> IF buy[i] THEN 1 ELSE sold[i]]

\* final_signal = 0; final_signal[buy_mask] = 1; final_signal[sell_mask] = -1
assign(buy, sell) ==
    LET zeros == [i \in 1..Len(buy) |-> 0]
        bought == [i \in 1..Len(buy) |-> IF buy[i] THEN 1 ELSE zeros[i]]
    IN  [i \in 1..Len(buy) |-> IF sell[i] THEN -1 ELSE bought[i]]

\* no forward fill: the assigned series as it is
replace_nothing(series) == [i \in 1..Len(series) |-> series[i]]

\* replace(to_replace=0, method="ffill"): a 0 takes the value before it; a 0
\* with nothing before it stays
replace_ffill(series) ==
    LET filled[i \in 1..Len(series)] ==
            IF series[i] # 0 THEN series[i]
            ELSE IF i = 1 THEN 0 ELSE filled[i-1]
    IN  filled

\* the combine_signals calls: 1..MaxStrategies aligned series of up to
\* MaxBars bars, and the spec's scenario of two series of three bars
CombineInputs ==
    UNION {[1..n -> SignalSeqs(len)] : n \in 1..MaxStrategies, len \in 0..MaxBars}
    \cup {<< <<1, 1, -1>>, <<1, -1, -1>> >>}

Operators == {"AND", "OR"}

\* no backtest is under way
BacktestIdle ==
    /\ df = Frame(0, {}, <<>>, <<>>)
    /\ precomputed_returns = None
    /\ initial_capital = INITIAL_CAPITAL
    /\ min_holding_period = 0
    /\ trading_fee_pct = Zero
    /\ pc = "idle"
    /\ path = "none"
    /\ position = <<>>
    /\ pos_change = <<>>
    /\ returns = <<>>
    /\ strategy_returns = <<>>
    /\ result = NoResult
    /\ bh = NoResult

InitCombine ==
    /\ signal_dfs \in CombineInputs
    /\ buy_operator \in Operators
    /\ sell_operator \in Operators
    /\ cpc = "call"
    /\ buy_mask = <<>>
    /\ sell_mask = <<>>
    /\ final_signal = <<>>
    /\ BacktestIdle
    /\ CacheIdle
    /\ GridIdle
    /\ ScoreIdle
    /\ SearchIdle
    /\ PruneIdle
    /\ TestIdle

\* combine_signals
Combine ==
    /\ cpc = "call"
    /\ LET m == masks(signal_dfs, buy_operator, sell_operator)
       IN  /\ buy_mask' = m.buy
           /\ sell_mask' = m.sell
           /\ final_signal' = replace_ffill(assign(m.buy, m.sell))
    /\ cpc' = "done"
    /\ UNCHANGED <<signal_dfs, buy_operator, sell_operator, exceptCombine>>

NextCombine == Combine

SpecCombine == InitCombine /\ [][NextCombine]_vars

(***************************************************************************)
(* SignalCache (optimizer.py).  A request is one call                      *)
(* get(strategy_name, df, **params); params is the keyword list in the     *)
(* order the caller wrote it.  A strategy function is not interpreted: its *)
(* series is a term over the strategy, the bound parameters and the whole  *)
(* frame.  Python's hash() is taken to be collision-free on the keys of    *)
(* the model, so a key is the tuple that is formatted and hashed.          *)
(***************************************************************************)
\* the parameter names of the strategies below, in ascending string order
NameOrder == <<"long_window", "lookback", "short_window">>

Rank(name) == CHOOSE i \in 1..Len(NameOrder) : NameOrder[i] = name

\* the parameters of two registered strategy functions
Signature ==
    [moving_average_crossover |-> {"short_window", "long_window"},
     high_low_breakout |-> {"lookback"}]

\* values of config.STRATEGY_PARAM_GRID for these parameters
ParamChoices ==
    [short_window |-> {5}, long_window |-> {50}, lookback |-> {12, 24}]

\* the keyword lists a strategy accepts: its parameters in any order
KeywordLists(strategy_name) ==
    LET names == Signature[strategy_name]
        items == UNION {{<<name, v>> : v \in ParamChoices[name]} : name \in names}
    IN  {kw \in [1..Cardinality(names) -> items] :
            \A i, j \in 1..Cardinality(names) : i # j => kw[i][1] # kw[j][1]}

\* frames of two bars: the close prices and a column no key looks at
CacheFrames ==
    {[close_price |-> <<1, 2>>, volume_crypto |-> <<1, 1>>],
     [close_price |-> <<1, 2>>, volume_crypto |-> <<2, 2>>],
     [close_price |-> <<2, 1>>, volume_crypto |-> <<1, 1>>]}

Requests ==
    UNION {{[strategy_name |-> s, df |-> d, params |-> kw] :
                d \in CacheFrames, kw \in KeywordLists(s)} :
           s \in DOMAIN Signature}

\* sorted(): insertion of one (name, value) item into a sorted list
insert(item, items) ==
    LET k == Cardinality({i \in 1..Len(items) : Rank(items[i][1]) < Rank(item[1])})
    IN  SubSeq(items, 1, k) \o <<item>> \o SubSeq(items, k + 1, Len(items))

RECURSIVE sorted(_)
sorted(items) ==
    IF items = <<>> THEN <<>> ELSE insert(Head(items), sorted(Tail(items)))

\* a fingerprint of every column of the frame
get_df_hash_frame(frame) == <<frame.close_price, frame.volume_crypto>>

\* SignalCache._get_df_hash: hash(tuple(df["close_price"].values))
get_df_hash(frame) == frame.close_price

\* a key over the keyword list as the caller wrote it
get_hash_unsorted(strategy_name, params, df_hash) ==
    <<strategy_name, params, df_hash>>

\* SignalCache._get_hash:
\* hash(f"{strategy_name}_{str(sorted(params.items()))}_{df_hash}")
get_hash(strategy_name, params, df_hash) ==
    <<strategy_name, sorted(params), df_hash>>

\* STRATEGY_FUNCTIONS[strategy_name](df, **params): keywords bind by name
strategy_signal(strategy_name, frame, params) ==
    [strategy_name |-> strategy_name,
     params |-> {params[i] : i \in 1..Len(params)},
     df |-> frame]

\* removal of the most recently inserted half
evict_newest(entries, size) ==
    IF Len(entries) >= size
    THEN SubSeq(entries, 1, Len(entries) - (size \div 2))
    ELSE entries

\* SignalCache.get, the capacity check: the first max_size // 2 keys are popped
evict(entries, size) ==
    IF Len(entries) >= size
    THEN SubSeq(entries, (size \div 2) + 1, Len(entries))
    ELSE entries

keys_of(entries) == [i \in 1..Len(entries) |-> entries[i].key]

\* largest max_size a cache is built with
MaxCacheSize == 2
\* most strategy-function calls of one run
MaxSourceCalls == 3

InitCache ==
    /\ cache = <<>>
    /\ max_size \in 1..MaxCacheSize
    /\ source_calls = 0
    /\ last_get = NoResult
    /\ BacktestIdle
    /\ CombinerIdle
    /\ GridIdle
    /\ ScoreIdle
    /\ SearchIdle
    /\ PruneIdle
    /\ TestIdle

\* SignalCache.get(strategy_name, df, **params)
Get(r) ==
    LET cache_key == get_hash(r.strategy_name, r.params, get_df_hash(r.df))
        found == {i \in 1..Len(cache) : cache[i].key = cache_key}
    IN  /\ IF found # {}
           THEN /\ last_get' = [kind |-> "get", request |-> r, hit |-> TRUE,
                            signal |-> cache[CHOOSE i \in found : TRUE].signal,
                            removed |-> <<>>]
                /\ UNCHANGED <<cache, source_calls>>
           ELSE /\ source_calls < MaxSourceCalls
                /\ LET signal == strategy_signal(r.strategy_name, r.df, r.params)
                       kept == evict(cache, max_size)
                   IN  /\ cache' = Append(kept, [key |-> cache_key, signal |-> signal])
                       /\ last_get' = [kind |-> "get", request |-> r, hit |-> FALSE,
                                   signal |-> signal,
                                   removed |-> SubSeq(keys_of(cache), 1,
                                                      Len(cache) - Len(kept))]
                /\ source_calls' = source_calls + 1
        /\ UNCHANGED <<max_size, exceptCache>>

\* signal_cache.cache.clear() (main.py)
Clear ==
    /\ cache # <<>>
    /\ cache' = <<>>
    /\ last_get' = [kind |-> "clear"]
    /\ UNCHANGED <<max_size, source_calls, exceptCache>>

NextCache == (\E r \in Requests : Get(r)) \/ Clear

SpecCache == InitCache /\ [][NextCache]_vars

(***************************************************************************)
(* generate_param_dicts (optimizer.py).  A grid is the list of its         *)
(* (key, value list) items in insertion order, or None; a dict of the      *)
(* result is the list of its (key, value) items in insertion order.        *)
(***************************************************************************)
\* longest value list of a grid key
MaxValues == 2

\* the keys of the meta-parameter grid
GridKeys == <<"penalty_factor", "min_holding_period", "sharpe_ratio_weight">>

\* value lists without repetition, the empty list among them
ValueLists ==
    UNION {{l \in [1..n -> 1..MaxValues] : \A i, j \in 1..n : i # j => l[i] # l[j]} :
           n \in 0..MaxValues}

Grids ==
    {[is_none |-> TRUE, items |-> <<>>]}
    \cup UNION {{[is_none |-> FALSE,
                  items |-> [i \in 1..n |-> [key |-> GridKeys[i], values |-> ls[i]]]] :
                    ls \in [1..n -> ValueLists]} :
                n \in 0..Len(GridKeys)}

\* the tuples <<l1[i], l2[i], ...>> of equal positions
RECURSIVE product_diagonal(_)
product_diagonal(lists) ==
    IF lists = <<>> THEN << <<>> >>
    ELSE LET rest == product_diagonal(Tail(lists))
             n == IF Len(lists) = 1 THEN Len(Head(lists))
                  ELSE IF Len(Head(lists)) < Len(rest) THEN Len(Head(lists))
                  ELSE Len(rest)
         IN  [i \in 1..n |-> <<Head(lists)[i]>> \o (IF Len(lists) = 1 THEN <<>> ELSE rest[i])]

\* itertools.product(*lists): the rightmost list advances fastest
RECURSIVE product(_)
product(lists) ==
    IF lists = <<>> THEN << <<>> >>
    ELSE LET first == Head(lists)
             rest == product(Tail(lists))
         IN  [n \in 1..(Len(first) * Len(rest)) |->
                 <<first[((n - 1) \div Len(rest)) + 1]>>
                     \o rest[((n - 1) % Len(rest)) + 1]]

\* dict(zip(keys, vals))
dict_zip(keys, vals) == [i \in 1..Len(keys) |-> <<keys[i], vals[i]>>]

generate_param_dicts(grid) ==
    IF grid.is_none \/ grid.items = <<>>
    THEN << <<>> >>
    ELSE LET keys == [i \in 1..Len(grid.items) |-> grid.items[i].key]
             values_product ==
                 product([i \in 1..Len(grid.items) |-> grid.items[i].values])
         IN  [n \in 1..Len(values_product) |-> dict_zip(keys, values_product[n])]

InitGrid ==
    /\ param_grid \in Grids
    /\ gpc = "call"
    /\ param_dicts = <<>>
    /\ BacktestIdle
    /\ CombinerIdle
    /\ CacheIdle
    /\ ScoreIdle
    /\ SearchIdle
    /\ PruneIdle
    /\ TestIdle

Generate ==
    /\ gpc = "call"
    /\ param_dicts' = generate_param_dicts(param_grid)
    /\ gpc' = "done"
    /\ UNCHANGED <<param_grid, exceptGrid>>

NextGrid == Generate

SpecGrid == InitGrid /\ [][NextGrid]_vars

(***************************************************************************)
(* The score of one candidate (_evaluate_strategy_params, and the same     *)
(* lines in the loops of combo_optimizer.py): the backtest of the          *)
(* candidate's signal, then the Sharpe ratio and the score.  The Sharpe    *)
(* ratio mean / std is the signed square root of mean^2 / variance; it is  *)
(* kept as its sign and its square, and a score as the rational part plus  *)
(* coefficient * sharpe.                                                   *)
(***************************************************************************)
\* signal.shift(1, fill_value=0)
shift_fill_value(signal) ==
    [i \in 1..Len(signal) |-> IF i = 1 THEN 0 ELSE signal[i - 1]]

\* shifted signal * precomputed_returns
lagged_returns(signal, rets) ==
    LET shifted == shift_fill_value(signal)
    IN  [i \in 1..Len(signal) |-> RMul(FromInt(shifted[i]), rets[i])]

RECURSIVE series_sum(_, _)
series_sum(x, i) == IF i > Len(x) THEN Zero ELSE RAdd(x[i], series_sum(x, i + 1))

\* Series.mean() of a series of at least one value
series_mean(x) == RDiv(series_sum(x, 1), FromInt(Len(x)))

\* the square of Series.std() (ddof = 1) of a series of at least two values
series_var(x) ==
    LET m == series_mean(x)
        sq == [i \in 1..Len(x) |-> RMul(RSub(x[i], m), RSub(x[i], m))]
    IN  RDiv(series_sum(sq, 1), FromInt(Len(x) - 1))

Sign(a) == IF a[1] > 0 THEN 1 ELSE IF a[1] < 0 THEN -1 ELSE 0

NoSharpe == [sign |-> 0, square |-> Zero]

\* (strat_returns.mean() / std_dev) if std_dev > 0 else 0.0; std() of fewer
\* than two values is NaN, and NaN > 0 is False
sharpe_of(strat_returns) ==
    IF Len(strat_returns) < 2 THEN NoSharpe
    ELSE LET m == series_mean(strat_returns)
             v == series_var(strat_returns)
         IN  IF ~RLess(Zero, v) THEN NoSharpe
             ELSE [sign |-> Sign(m), square |-> RDiv(RMul(m, m), v)]

\* the score with the two weights exchanged
score_swapped(w, penalty, performance, sharpe_ratio, num_trades) ==
    [kind |-> "value",
     rational |-> RSub(RMul(w, performance), RMul(penalty, FromInt(num_trades))),
     coefficient |-> RSub(One, w),
     sharpe |-> sharpe_ratio]

\* (1 - w) * performance + (w * sharpe_ratio) - (penalty_factor * num_trades)
score_of(w, penalty, performance, sharpe_ratio, num_trades) ==
    [kind |-> "value",
     rational |-> RSub(RMul(RSub(One, w), performance),
                       RMul(penalty, FromInt(num_trades))),
     coefficient |-> w,
     sharpe |-> sharpe_ratio]

\* config.PENALTY_FACTOR_GRID
PENALTY_FACTOR_GRID == {Zero, <<1, 2000>>}
\* config.SHARPE_RATIO_WEIGHT_GRID
SHARPE_RATIO_WEIGHT_GRID == {Zero, <<1, 2>>, One}
\* holding periods of the candidates: none, and two bars
HoldingGrid == {0, 2}

\* the frames the optimizers build, with the returns they precompute
ScoreCalls ==
    UNION {{[df |-> Frame(n, {"signal", "close_price"}, s, p),
             pre |-> Series(pct_change(p))] :
                s \in SignalSeqs(n), p \in PriceSeqs(n)} :
           n \in 0..MaxLen}

InitScore ==
    /\ EnteredBacktest(ScoreCalls, HoldingGrid)
    /\ penalty_factor \in PENALTY_FACTOR_GRID
    /\ sharpe_ratio_weight \in SHARPE_RATIO_WEIGHT_GRID
    /\ score = NoResult
    /\ CombinerIdle
    /\ CacheIdle
    /\ GridIdle
    /\ SearchIdle
    /\ PruneIdle
    /\ TestIdle

\* _evaluate_strategy_params after its backtest has returned
Score ==
    /\ pc = "done"
    /\ score = NoResult
    /\ score' = score_of(sharpe_ratio_weight, penalty_factor, result.total_return,
                         sharpe_of(lagged_returns(df.signal, precomputed_returns.values)),
                         result.num_trades)
    /\ UNCHANGED <<btVars, penalty_factor, sharpe_ratio_weight,
                   combVars, cacheVars, gridVars, optVars, pruneVars, testVars>>

NextScore == TryOptimized \/ Reference \/ Score

SpecScore == InitScore /\ [][NextScore]_vars

(***************************************************************************)
(* The searches of the optimizers.  A candidate is a tuple <<s, m>>: the   *)
(* s-th strategy-parameter dict (for a combo, the s-th tuple of the        *)
(* product of the strategies' dicts) with the m-th meta-parameter dict.    *)
(* What the evaluation of a candidate gives (its score, final portfolio    *)
(* value and trade count, or an exception) is an input of the search;      *)
(* scores are integers, ordered as the floats are.                         *)
(***************************************************************************)
\* most strategy-parameter dicts of a search
MaxStrategyParams == 2

\* the meta-parameter dicts of a search
MetaCount == 2

Failure == [failed |-> TRUE, score |-> 0, final_portfolio |-> 0, num_trades |-> 0]

\* what an evaluation gives: an exception, or one of three results, two of
\* them with the same score
Outcomes ==
    {Failure,
     [failed |-> FALSE, score |-> 1, final_portfolio |-> 10100, num_trades |-> 1],
     [failed |-> FALSE, score |-> 1, final_portfolio |-> 10200, num_trades |-> 2],
     [failed |-> FALSE, score |-> 2, final_portfolio |-> 10300, num_trades |-> 3]}

Candidates(n) == (1..n) \X (1..MetaCount)

\* for strat_params in strategy_param_dicts: for meta_params in meta_param_dicts
strategy_outer(n) ==
    [k \in 1..(n * MetaCount) |->
        <<((k - 1) \div MetaCount) + 1, ((k - 1) % MetaCount) + 1>>]

\* for meta_params in meta_param_dicts:
\*     for combo_tuple in itertools.product(*strategy_param_combos)
meta_outer(n) ==
    [k \in 1..(n * MetaCount) |-> <<((k - 1) % n) + 1, ((k - 1) \div n) + 1>>]

SequentialOptimizers ==
    {"optimize_strategy", "optimize_single_strategies", "optimize_strategy_combo"}

combinations_of(opt, n) ==
    IF opt = "optimize_strategy_combo" THEN meta_outer(n) ELSE strategy_outer(n)

\* best params: None, {} or the dict built from a candidate
ParamsNone == [kind |-> "None", candidate |-> <<0, 0>>]
ParamsEmpty == [kind |-> "{}", candidate |-> <<0, 0>>]
ParamsOf(c) == [kind |-> "dict", candidate |-> c]

\* float("-inf") and the finite scores
NegInf == [neg_inf |-> TRUE, value |-> 0]
Finite(v) == [neg_inf |-> FALSE, value |-> v]

\* a >= b
greater_or_equal(a, b) ==
    b.neg_inf \/ (~a.neg_inf /\ a.value >= b.value)

\* a > b
greater(a, b) ==
    ~a.neg_inf /\ (b.neg_inf \/ a.value > b.value)

\* the best before the first candidate
initial_best(opt) ==
    [params |-> IF opt = "optimize_single_strategies" THEN ParamsEmpty ELSE ParamsNone,
     score |-> NegInf, final_portfolio |-> 0, num_trades |-> 0]

\* the best after a candidate c whose evaluation gave out
track_best(incumbent, c, out) ==
    IF greater(Finite(out.score), incumbent.score)
    THEN [params |-> ParamsOf(c), score |-> Finite(out.score),
          final_portfolio |-> out.final_portfolio, num_trades |-> out.num_trades]
    ELSE incumbent

InitSearch ==
    /\ optimizer \in SequentialOptimizers
    /\ \E n \in 0..MaxStrategyParams :
        \* optimize_strategy_combo puts [{}] in the place of an empty list
        /\ optimizer = "optimize_strategy_combo" => n >= 1
        /\ param_combinations = combinations_of(optimizer, n)
        /\ evaluations \in [Candidates(n) -> Outcomes]
    /\ cursor = 0
    /\ best = initial_best(optimizer)
    /\ futures = {}
    /\ results = <<>>
    /\ returned = NoResult
    /\ opc = "search"
    /\ BacktestIdle
    /\ CombinerIdle
    /\ CacheIdle
    /\ GridIdle
    /\ ScoreIdle
    /\ PruneIdle
    /\ TestIdle

\* one pass of the loop body: the candidate is evaluated; an exception leaves
\* the function, a result replaces the best on a greater score
Evaluate ==
    /\ opc = "search"
    /\ cursor < Len(param_combinations)
    /\ LET c == param_combinations[cursor + 1]
           out == evaluations[c]
       IN  IF out.failed
           THEN /\ opc' = "raised"
                /\ UNCHANGED <<cursor, best>>
           ELSE /\ opc' = opc
                /\ cursor' = cursor + 1
                /\ best' = track_best(best, c, out)
    /\ UNCHANGED <<optimizer, param_combinations, evaluations, futures, results,
                   returned, exceptSearch>>

\* the loops are over: the best is returned
ReturnBest ==
    /\ opc = "search"
    /\ cursor = Len(param_combinations)
    /\ returned' = best
    /\ opc' = "returned"
    /\ UNCHANGED <<optimizer, param_combinations, evaluations, cursor, best,
                   futures, results, exceptSearch>>

NextSearch == Evaluate \/ ReturnBest

SpecSearch == InitSearch /\ [][NextSearch]_vars

\* the loop of a sequential search from candidate number k on, as a function
\* of the table of evaluations: what it raises or returns
RECURSIVE search_from(_, _, _, _)
search_from(combos, table, k, incumbent) ==
    IF k > Len(combos) THEN [raised |-> FALSE, best |-> incumbent]
    ELSE IF table[combos[k]].failed THEN [raised |-> TRUE, best |-> incumbent]
    ELSE search_from(combos, table, k + 1,
                     track_best(incumbent, combos[k], table[combos[k]]))

\* the outcome of the sequential search opt over combos
sequential_search(opt, combos, table) ==
    search_from(combos, table, 1, initial_best(opt))

(***************************************************************************)
(* optimize_strategy_parallel: every candidate is submitted to the pool,   *)
(* the futures complete in any order, and the results are reduced.         *)
(***************************************************************************)
\* def _evaluate_strategy_params(df, strategy_name, strat_params, meta_params,
\*                               initial_capital, precomputed_returns)
EvaluateParameters ==
    <<"df", "strategy_name", "strat_params", "meta_params", "initial_capital",
      "precomputed_returns">>

\* the keywords fixed by partial(_evaluate_strategy_params, df=..., ...)
PartialKeywords == {"df", "strategy_name", "initial_capital", "precomputed_returns"}

\* executor.submit(evaluate_func, strat_params, meta_params): two positionals
SubmittedPositionals == 2

\* a call binds its positionals to the first parameters and its keywords by
\* name; it raises TypeError when a parameter gets two values or none, or
\* when a keyword names no parameter
call_raises(parameters, positionals, keywords) ==
    \/ \E i \in 1..Len(parameters) : i <= positionals /\ parameters[i] \in keywords
    \/ \E i \in 1..Len(parameters) : i > positionals /\ parameters[i] \notin keywords
    \/ \E k \in keywords : \A i \in 1..Len(parameters) : parameters[i] # k

\* the worker is taken to return the evaluation of its candidate
worker_result_direct(c) == evaluations[c]

\* what future.result() gives for candidate c
worker_result(c) ==
    IF call_raises(EvaluateParameters, SubmittedPositionals, PartialKeywords)
    THEN Failure
    ELSE evaluations[c]

\* every outcome is appended, an exception as a result of score 0
collect_all(collected, c, out) ==
    Append(collected, [score |-> out.score, final_portfolio |-> out.final_portfolio,
                       num_trades |-> out.num_trades, candidate |-> c])

\* try: results.append(future.result()) / except Exception: print(...)
collect(collected, c, out) ==
    IF out.failed THEN collected
    ELSE Append(collected, [score |-> out.score, final_portfolio |-> out.final_portfolio,
                            num_trades |-> out.num_trades, candidate |-> c])

\* max(results, key=lambda x: x[0]): the first result of the greatest score
max_by_score(collected) ==
    collected[CHOOSE i \in 1..Len(collected) :
                 /\ \A j \in 1..Len(collected) : collected[j].score <= collected[i].score
                 /\ \A j \in 1..(i - 1) : collected[j].score < collected[i].score]

\* the return value of optimize_strategy_parallel
reduce(collected) ==
    IF collected # <<>>
    THEN LET best_result == max_by_score(collected)
         IN  [params |-> ParamsOf(best_result.candidate),
              score |-> Finite(best_result.score),
              final_portfolio |-> best_result.final_portfolio,
              num_trades |-> best_result.num_trades]
    ELSE [params |-> ParamsEmpty, score |-> Finite(0),
          final_portfolio |-> INITIAL_CAPITAL, num_trades |-> 0]

InitParallel ==
    /\ optimizer = "optimize_strategy_parallel"
    /\ \E n \in 0..MaxStrategyParams :
        /\ param_combinations = strategy_outer(n)
        /\ evaluations \in [Candidates(n) -> Outcomes]
        /\ futures = 1..(n * MetaCount)
    /\ cursor = 0
    /\ best = NoResult
    /\ results = <<>>
    /\ returned = NoResult
    /\ opc = "collect"
    /\ BacktestIdle
    /\ CombinerIdle
    /\ CacheIdle
    /\ GridIdle
    /\ ScoreIdle
    /\ PruneIdle
    /\ TestIdle

\* as_completed yields the future of candidate number k
Complete(k) ==
    /\ opc = "collect"
    /\ k \in futures
    /\ LET c == param_combinations[k]
       IN  results' = collect(results, c, worker_result(c))
    /\ futures' = futures \ {k}
    /\ UNCHANGED <<optimizer, param_combinations, evaluations, cursor, best,
                   returned, opc, exceptSearch>>

\* every future has completed: the results are reduced and returned
Reduce ==
    /\ opc = "collect"
    /\ futures = {}
    /\ returned' = reduce(results)
    /\ opc' = "returned"
    /\ UNCHANGED <<optimizer, param_combinations, evaluations, cursor, best,
                   futures, results, exceptSearch>>

NextParallel == (\E k \in futures : Complete(k)) \/ Reduce

SpecParallel == InitParallel /\ [][NextParallel]_vars

(***************************************************************************)
(* optimize_strategy_combo_improved: a first pass backtests every          *)
(* meta-parameter dict with the first parameter dict of each strategy and  *)
(* keeps the promising ones; a second pass evaluates the promising dicts   *)
(* against the whole product of the strategies' parameter dicts, in        *)
(* batches.  An evaluation gives the backtest's total_return as well.      *)
(***************************************************************************)
PrunedOutcomes ==
    {Failure,
     [failed |-> FALSE, total_return |-> <<1, 100>>, score |-> 1,
      final_portfolio |-> 10100, num_trades |-> 1],
     [failed |-> FALSE, total_return |-> <<1, 50>>, score |-> 2,
      final_portfolio |-> 10200, num_trades |-> 2],
     [failed |-> FALSE, total_return |-> <<-1, 10>>, score |-> 3,
      final_portfolio |-> 9000, num_trades |-> 3],
     [failed |-> FALSE, total_return |-> <<-1, 5>>, score |-> 1,
      final_portfolio |-> 8000, num_trades |-> 1]}

\* batch_size is 100 in the source; smaller sizes make the batches of a short
\* product visible
BatchSizes == {1, 2, 100}

\* perf >= -0.1
is_promising_inclusive(perf) == ~RLess(perf, <<-1, 10>>)

\* if perf > -0.1
is_promising(perf) == RLess(<<-1, 10>>, perf)

\* list(itertools.product(*strategy_param_sets)), its tuples by number
product_of(n) == [s \in 1..n |-> s]

\* param_combinations[i:i+min(batch_size, len(param_combinations)-i)]
batch_slice(combos, i, size) ==
    LET rest == Len(combos) - i
        width == IF size < rest THEN size ELSE rest
    IN  SubSeq(combos, i + 1, i + width)

\* with no promising dict, only the first meta-parameter dict is searched
promising_or_first(kept) ==
    IF kept = <<>> THEN <<1>> ELSE kept

\* if not promising_meta_params: promising_meta_params = meta_param_dicts
promising_or_all(kept) ==
    IF kept = <<>> THEN [m \in 1..MetaCount |-> m] ELSE kept

InitImproved ==
    /\ optimizer = "optimize_strategy_combo_improved"
    /\ \E n \in 1..MaxStrategyParams :
        /\ param_combinations = product_of(n)
        /\ evaluations \in [Candidates(n) -> PrunedOutcomes]
    /\ batch_size \in BatchSizes
    /\ cursor = 0
    /\ best = initial_best(optimizer)
    /\ futures = {}
    /\ results = <<>>
    /\ returned = NoResult
    /\ opc = "prune"
    /\ promising_meta_params = <<>>
    /\ batch_start = 0
    /\ batch = <<>>
    /\ evaluated = <<>>
    /\ BacktestIdle
    /\ CombinerIdle
    /\ CacheIdle
    /\ GridIdle
    /\ ScoreIdle
    /\ TestIdle

exceptImproved == <<btVars, combVars, cacheVars, gridVars, scoreVars, testVars>>

\* one pass of the first loop: the meta-parameter dict number cursor + 1 is
\* backtested with the first parameter dict of every strategy; after the last
\* one the promising list is completed and the second pass takes its first batch
QuickBacktest ==
    /\ opc = "prune"
    /\ cursor < MetaCount
    /\ LET m == cursor + 1
           out == evaluations[<<1, m>>]
           kept == IF is_promising(out.total_return)
                   THEN Append(promising_meta_params, m)
                   ELSE promising_meta_params
       IN  IF out.failed
           THEN /\ opc' = "raised"
                /\ UNCHANGED <<cursor, promising_meta_params, batch>>
           ELSE IF m < MetaCount
           THEN /\ opc' = opc
                /\ cursor' = m
                /\ promising_meta_params' = kept
                /\ batch' = batch
           ELSE /\ opc' = "search"
                /\ cursor' = 0
                /\ promising_meta_params' = promising_or_all(kept)
                /\ batch' = batch_slice(param_combinations, 0, batch_size)
    /\ UNCHANGED <<optimizer, param_combinations, evaluations, best, futures,
                   results, returned, batch_size, batch_start, evaluated,
                   exceptImproved>>

\* one pass of the innermost loop of the second pass: the next tuple of the
\* batch is evaluated with the current promising meta-parameter dict; the
\* loops then move on to the next batch (the range iterator is not affected
\* by the inner loops that rebind i) or to the next meta-parameter dict
EvaluateCombo ==
    /\ opc = "search"
    /\ batch # <<>>
    /\ LET c == <<Head(batch), promising_meta_params[cursor + 1]>>
           out == evaluations[c]
           next_start == batch_start + batch_size
       IN  IF out.failed
           THEN /\ opc' = "raised"
                /\ UNCHANGED <<cursor, best, batch_start, batch, evaluated>>
           ELSE /\ opc' = opc
                /\ best' = track_best(best, c, out)
                /\ evaluated' = Append(evaluated, c)
                /\ IF Tail(batch) # <<>>
                   THEN /\ batch' = Tail(batch)
                        /\ UNCHANGED <<cursor, batch_start>>
                   ELSE IF next_start < Len(param_combinations)
                   THEN /\ batch_start' = next_start
                        /\ batch' = batch_slice(param_combinations, next_start, batch_size)
                        /\ cursor' = cursor
                   ELSE /\ cursor' = cursor + 1
                        /\ batch_start' = 0
                        /\ batch' = IF cursor + 1 < Len(promising_meta_params)
                                    THEN batch_slice(param_combinations, 0, batch_size)
                                    ELSE <<>>
    /\ UNCHANGED <<optimizer, param_combinations, evaluations, futures, results,
                   returned, promising_meta_params, batch_size, exceptImproved>>

\* the loops are over: the best is returned
ReturnImproved ==
    /\ opc = "search"
    /\ cursor = Len(promising_meta_params)
    /\ returned' = best
    /\ opc' = "returned"
    /\ UNCHANGED <<optimizer, param_combinations, evaluations, cursor, best,
                   futures, results, pruneVars, exceptImproved>>

NextImproved == QuickBacktest \/ EvaluateCombo \/ ReturnImproved

SpecImproved == InitImproved /\ [][NextImproved]_vars

(***************************************************************************)
(* main.process_currency, step 5: every row of train_results is tested on  *)
(* the test set with the holding period read from its BestParams.          *)
(***************************************************************************)
\* the BestParams optimize_single_strategies stores (combo_optimizer.py) and
\* those optimize_strategy_combo_improved returns; of the meta-parameters only
\* min_holding_period is read by the test
single_best_params(h) ==
    [strategy_params |-> "params", meta_params |-> [min_holding_period |-> h]]

combo_best_params(h) ==
    [Strategies |-> "params", Meta |-> [min_holding_period |-> h]]

\* the rows of train_results: single_df and combo_df with their StrategyType
TrainRows ==
    {[StrategyType |-> "single", BestParams |-> single_best_params(h)] :
        h \in HoldingGrid}
    \cup {[StrategyType |-> "combo", BestParams |-> combo_best_params(h)] :
        h \in HoldingGrid}

\* if best_params_dict and "Meta" in best_params_dict:
\*     mhp = best_params_dict["Meta"].get("min_holding_period", 0)
\* else: mhp = 0
mhp_of(best_params_dict) ==
    IF "Meta" \in DOMAIN best_params_dict
    THEN IF "min_holding_period" \in DOMAIN best_params_dict.Meta
         THEN best_params_dict.Meta.min_holding_period
         ELSE 0
    ELSE 0

\* the test frames: at least two rows, with the returns process_currency
\* precomputes from them
TestCalls == {c \in ScoreCalls : c.df.len >= 2}

InitTest ==
    /\ row \in TrainRows
    /\ \E c \in TestCalls :
        /\ df = c.df
        /\ precomputed_returns = c.pre
    /\ initial_capital = INITIAL_CAPITAL
    /\ min_holding_period = 0
    /\ trading_fee_pct \in FeeValues
    /\ pc = "row"
    /\ path = "none"
    /\ position = <<>>
    /\ pos_change = <<>>
    /\ returns = <<>>
    /\ strategy_returns = <<>>
    /\ result = NoResult
    /\ bh = NoResult
    /\ CombinerIdle
    /\ CacheIdle
    /\ GridIdle
    /\ ScoreIdle
    /\ SearchIdle
    /\ PruneIdle

\* the body of the loop over the rows, up to the call of backtest_strategy
TestRow ==
    /\ pc = "row"
    /\ min_holding_period' = mhp_of(row.BestParams)
    /\ pc' = "call"
    /\ UNCHANGED <<df, initial_capital, precomputed_returns, trading_fee_pct,
                   path, position, pos_change, returns, strategy_returns,
                   result, bh, exceptBacktest>>

\* a test frame has both columns and at least two rows: the optimized path
\* of backtest_strategy returns
NextTest == TestRow \/ TryOptimized

SpecTest == InitTest /\ [][NextTest]_vars

(***************************************************************************)
(* optimize_single_strategies under the shipped configuration: every       *)
(* registered strategy is searched over its STRATEGY_PARAM_GRID entry and  *)
(* the meta-parameter grid; each evaluation dispatches the strategy        *)
(* function with the candidate's parameters as keywords.                   *)
(***************************************************************************)
\* optimizer.STRATEGY_FUNCTIONS, its keys in insertion order
STRATEGY_FUNCTIONS ==
    <<"moving_average_crossover", "rsi", "bollinger_bands", "macd",
      "high_low_breakout", "volume_price_action", "vwap_zone",
      "zscore_mean_reversion">>

\* the parameters of the functions in strategy.py
StrategyParameters ==
    [moving_average_crossover |-> <<"df", "short_window", "long_window">>,
     rsi |-> <<"df", "period", "buy_threshold", "sell_threshold">>,
     bollinger_bands |-> <<"df", "period">>,
     macd |-> <<"df", "fast_period", "slow_period", "signal_period">>,
     high_low_breakout |-> <<"df", "lookback">>,
     volume_price_action |-> <<"df", "volume_multiplier">>,
     vwap_zone |-> <<"df", "rsi_period", "rsi_lower", "rsi_upper">>,
     zscore_mean_reversion |-> <<"df", "zscore_window", "zscore_threshold">>]

\* config.STRATEGY_PARAM_GRID: the keys of each entry in order, each with its
\* list of values
STRATEGY_PARAM_GRID ==
    [moving_average_crossover |->
        << <<"short_window", <<"5", "10", "20", "50">> >>,
           <<"long_window", <<"50", "100", "200", "300", "400">> >> >>,
     rsi |->
        << <<"period", <<"7", "14">> >>,
           <<"buy_threshold", <<"25", "30", "35">> >>,
           <<"sell_threshold", <<"65", "70", "75">> >> >>,
     bollinger_bands |->
        << <<"period", <<"14", "20">> >>,
           <<"std_dev", <<"2", "2.5", "3">> >> >>,
     macd |->
        << <<"fast_period", <<"12", "20">> >>,
           <<"slow_period", <<"26", "50">> >>,
           <<"signal_period", <<"9", "12">> >> >>,
     high_low_breakout |->
        << <<"lookback", <<"12", "24", "48">> >> >>,
     volume_price_action |->
        << <<"volume_multiplier", <<"1.5", "2.0", "2.5">> >> >>,
     vwap_zone |->
        << <<"rsi_period", <<"7", "14">> >>,
           <<"rsi_lower", <<"40", "45", "50">> >>,
           <<"rsi_upper", <<"55", "60", "65">> >> >>,
     zscore_mean_reversion |->
        << <<"zscore_window", <<"14", "20", "30">> >>,
           <<"zscore_threshold", <<"2", "2.5", "3">> >> >>]

\* config.MIN_HOLDING_PERIOD_GRID
MIN_HOLDING_PERIOD_GRID == {0, 5, 10}

\* len(meta_param_dicts): the product of the three meta-parameter grids
meta_param_count ==
    Cardinality(PENALTY_FACTOR_GRID) * Cardinality(MIN_HOLDING_PERIOD_GRID)
        * Cardinality(SHARPE_RATIO_WEIGHT_GRID)

\* len(generate_param_dicts(params_dict)): the product of the lengths of the
\* value lists from item k on
RECURSIVE combo_count(_, _)
combo_count(items, k) ==
    IF k > Len(items) THEN 1 ELSE Len(items[k][2]) * combo_count(items, k + 1)

\* the keys of every dict generate_param_dicts makes from an entry
keywords_of(items) == {items[k][1] : k \in 1..Len(items)}

\* STRATEGY_FUNCTIONS[strategy_name](df, **strat_params) raises TypeError
dispatch_raises(strategy_name) ==
    call_raises(StrategyParameters[strategy_name], 1,
                keywords_of(STRATEGY_PARAM_GRID[strategy_name]))

InitSingles ==
    /\ optimizer = "optimize_single_strategies"
    /\ opc = "singles"
    /\ results = <<>>
    /\ cursor = 0
    /\ param_combinations = <<>>
    /\ evaluations = <<>>
    /\ best = NoResult
    /\ futures = {}
    /\ returned = NoResult
    /\ BacktestIdle
    /\ CombinerIdle
    /\ CacheIdle
    /\ GridIdle
    /\ ScoreIdle
    /\ PruneIdle
    /\ TestIdle

\* one pass of the nested loops for the strategy whose row comes next: the
\* signal is requested for the candidate, which dispatches the strategy
\* function; no except clause is around it
EvaluateSingle ==
    /\ opc = "singles"
    /\ Len(results) < Len(STRATEGY_FUNCTIONS)
    /\ LET strategy_name == STRATEGY_FUNCTIONS[Len(results) + 1]
       IN  /\ cursor < combo_count(STRATEGY_PARAM_GRID[strategy_name], 1) * meta_param_count
           /\ IF dispatch_raises(strategy_name)
              THEN /\ opc' = "raised"
                   /\ cursor' = cursor
              ELSE /\ opc' = opc
                   /\ cursor' = cursor + 1
    /\ UNCHANGED <<optimizer, param_combinations, evaluations, best, futures,
                   results, returned, exceptSearch>>

\* the loops of a strategy are over: its row is appended; after the last
\* strategy the rows are returned
AppendRow ==
    /\ opc = "singles"
    /\ Len(results) < Len(STRATEGY_FUNCTIONS)
    /\ LET strategy_name == STRATEGY_FUNCTIONS[Len(results) + 1]
       IN  /\ cursor = combo_count(STRATEGY_PARAM_GRID[strategy_name], 1) * meta_param_count
           /\ results' = Append(results, strategy_name)
    /\ cursor' = 0
    /\ opc' = IF Len(results) + 1 = Len(STRATEGY_FUNCTIONS) THEN "returned" ELSE opc
    /\ UNCHANGED <<optimizer, param_combinations, evaluations, best, futures,
                   returned, exceptSearch>>

NextSingles == EvaluateSingle \/ AppendRow

SpecSingles == InitSingles /\ [][NextSingles]_vars

(***************************************************************************)
(* Properties of the backtest.                                             *)
(***************************************************************************)
Done == pc = "done"
HasBothColumns == df.columns = {"signal", "close_price"}

\* the position the path that returned derives from a signal, before enforcement
RawPosition(signal) ==
    IF path = "optimized" THEN forward_fill(signal) ELSE ffill_fillna(signal)

RawChange == diff(RawPosition(df.signal))

\* the last index before i with a trade left in pos_change, 0 if there is none
LastAcceptedBefore(i) ==
    LET earlier == {j \in 1..(i - 1) : pos_change[j] # 0}
    IN  IF earlier = {} THEN 0 ELSE CHOOSE j \in earlier : \A k \in earlier : k <= j

\* C1: with min_holding_period = m > 0 a trade attempt (a nonzero raw position
\* change) at index i is accepted iff no trade was accepted before it or
\* i - last accepted index >= m; a cancelled attempt has position_change[i] = 0
\* and position[i] = position[i-1]; an accepted one keeps its change and its
\* position; so two consecutive accepted trades are at least m bars apart.
C1_HoldingScan ==
    (Done /\ min_holding_period > 0) =>
        /\ \A i \in 1..df.len :
            LET last == LastAcceptedBefore(i)
                raw == RawPosition(df.signal)
            IN  /\ RawChange[i] = 0 => (pos_change[i] = 0 /\ position[i] = raw[i])
                /\ RawChange[i] # 0 =>
                    /\ pos_change[i] # 0 <=>
                           (last = 0 \/ i - last >= min_holding_period)
                    /\ pos_change[i] # 0 =>
                           (pos_change[i] = RawChange[i] /\ position[i] = raw[i])
                    /\ pos_change[i] = 0 => (i > 1 /\ position[i] = position[i-1])
        /\ \A i \in 1..df.len :
            (pos_change[i] # 0 /\ LastAcceptedBefore(i) # 0) =>
                i - LastAcceptedBefore(i) >= min_holding_period

\* The spec's scenario has run on the optimized path: attempts at Python
\* indices 2, 3 and 7 under m = 3; 2 and 7 are accepted, 3 is cancelled.
C1_Witness ==
    /\ Done /\ path = "optimized"
    /\ df.signal = ScenarioSignal /\ min_holding_period = 3
    /\ {i \in 1..df.len : RawChange[i] # 0} = {3, 4, 8}
    /\ {i \in 1..df.len : pos_change[i] # 0} = {3, 8}
    /\ position[4] = position[3]

\* the product over the bars from i on of 1 + position[i-1] * r[i]
RECURSIVE GrowthProduct(_)
GrowthProduct(i) ==
    IF i > Len(position) THEN One
    ELSE RMul(RAdd(One, RMul(FromInt(IF i = 1 THEN 0 ELSE position[i-1]), returns[i])),
              GrowthProduct(i + 1))

\* C2: num_trades is the number of bars whose position_change is nonzero after
\* enforcement, the fee factor is applied at exactly those bars, so
\* final_portfolio_value = initial_capital * prod (1 + position[i-1] * r[i])
\* * (1 - fee)^num_trades, and total_return = final_portfolio_value /
\* initial_capital - 1.
C2_TradesAndFees ==
    Done =>
        /\ result.num_trades = Cardinality({i \in 1..df.len : pos_change[i] # 0})
        /\ result.final_portfolio_value =
               RMul(RMul(FromInt(initial_capital), GrowthProduct(1)),
                    RPow(RSub(One, trading_fee_pct), result.num_trades))
        /\ result.total_return =
               RSub(RDiv(result.final_portfolio_value, FromInt(initial_capital)), One)

\* A backtest returned after one accepted and one cancelled trade, with a
\* fee and a price move: the fee is charged once although the raw position
\* changes twice.
C2_Witness ==
    /\ Done /\ trading_fee_pct # Zero
    /\ result.num_trades = 1
    /\ Cardinality({i \in 1..df.len : RawChange[i] # 0}) = 2
    /\ result.final_portfolio_value # FromInt(initial_capital)
    /\ \E i \in 1..df.len : returns[i] # Zero

\* C3 as claimed: when precomputed_returns is supplied the returns compounded
\* are the supplied values; when it is not, r[0] = 0 and
\* r[i] = price[i] / price[i-1] - 1.
C3_PrecomputedVerbatim ==
    Done =>
        IF precomputed_returns.is_none
        THEN returns = pct_change(df.close_price)
        ELSE returns = precomputed_returns.values

\* the position held entering bar i, computed from the signals before bar i only
PositionEntering(i) ==
    IF i = 1 THEN 0
    ELSE LET prefix == SubSeq(df.signal, 1, i - 1)
             raw == RawPosition(prefix)
         IN  enforce_holding(raw, diff(raw), min_holding_period).position[i - 1]

\* C4: the strategy return of bar i is position[i-1] * r[i], 0 at bar 0, and
\* position[i-1] is decided by the signals before bar i: no signal at an
\* index >= i enters it.
C4_OneBarLag ==
    Done =>
        \A i \in 1..df.len :
            /\ strategy_returns[i] =
                   RMul(FromInt(IF i = 1 THEN 0 ELSE position[i-1]), returns[i])
            /\ strategy_returns[i] = RMul(FromInt(PositionEntering(i)), returns[i])

\* A backtest returned whose signal flips at the bar of a price move: the
\* move is earned on the position held before the flip.
C4_Witness ==
    /\ Done /\ df.len >= 3
    /\ position[2] = 1 /\ position[3] = -1
    /\ returns[3] = <<1, 1>>
    /\ strategy_returns[3] = <<1, 1>>
    /\ returns[1] = Zero /\ strategy_returns[1] = Zero

\* C5 as claimed: a call whose frame lacks the signal or the close_price
\* column returns no result, whatever the other arguments.
C5_MissingColumnRaises ==
    (~HasBothColumns /\ pc \in {"done", "raised"}) =>
        (pc = "raised" /\ result = NoResult)

\* C6: on a frame of no rows backtest_strategy returns (0.0, initial_capital,
\* 0) and does not raise, for every min_holding_period; buy_and_hold returns
\* (0.0, initial_capital).
C6_EmptySeries ==
    /\ (HasBothColumns /\ df.len = 0 /\ pc # "call") =>
           /\ pc \in {"fallback", "done"}
           /\ pc = "done" =>
                  result = [kind |-> "value", total_return |-> Zero,
                            final_portfolio_value |-> FromInt(initial_capital),
                            num_trades |-> 0]
    /\ (df.len = 0 /\ bh # NoResult) =>
           bh = [kind |-> "value", total_return |-> Zero,
                 final_portfolio_value |-> FromInt(initial_capital)]

\* Both functions returned on a frame of no rows under a holding period.
C6_Witness ==
    /\ Done /\ HasBothColumns /\ df.len = 0 /\ min_holding_period > 0
    /\ result.kind = "value" /\ bh.kind = "value"

IsFlat(prices) == \A i \in 1..Len(prices) : prices[i] = prices[1]

\* C7: over a constant price, whatever the signal, total_return is 0 with
\* fee 0, and negative with a fee in (0, 1) and at least one counted trade.
C7_ConstantPrice ==
    (Done /\ HasBothColumns /\ IsFlat(df.close_price)) =>
        /\ trading_fee_pct = Zero => result.total_return = Zero
        /\ (RLess(Zero, trading_fee_pct) /\ RLess(trading_fee_pct, One)
              /\ result.num_trades >= 1) => RLess(result.total_return, Zero)

\* A backtest over a constant price returned with two trades and a fee.
C7_Witness ==
    /\ Done /\ HasBothColumns /\ IsFlat(df.close_price) /\ df.len = 3
    /\ trading_fee_pct # Zero /\ result.num_trades = 2
    /\ RLess(result.total_return, Zero)

AlwaysLong == df.len >= 1 /\ \A i \in 1..df.len : df.signal[i] = 1

\* C8: under a signal of +1 at every bar no trade is counted and no fee is
\* charged, final_portfolio_value = initial_capital * price[last] / price[0],
\* and buy_and_hold returns the same value and the same return.
C8_AlwaysLong ==
    (Done /\ HasBothColumns /\ AlwaysLong) =>
        /\ result.num_trades = 0
        /\ result.final_portfolio_value =
               RMul(FromInt(initial_capital),
                    RDiv(FromInt(df.close_price[df.len]), FromInt(df.close_price[1])))
        /\ bh # NoResult =>
               /\ bh.kind = "value"
               /\ bh.final_portfolio_value = result.final_portfolio_value
               /\ bh.total_return = result.total_return

\* The spec's scenario returned under a fee, and buy_and_hold after it:
\* prices 100, 110, 99, 130 give 13000 and a return of 0.30.
C8_Witness ==
    /\ Done /\ AlwaysLong /\ df.close_price = ScenarioPrices
    /\ trading_fee_pct # Zero /\ initial_capital = 10000
    /\ result.num_trades = 0
    /\ result.final_portfolio_value = <<13000, 1>>
    /\ result.total_return = <<3, 10>>
    /\ bh.kind = "value" /\ bh.final_portfolio_value = <<13000, 1>>

(***************************************************************************)
(* Properties of the combiner.                                             *)
(***************************************************************************)
Combined == cpc = "done"
Strategies == 1..Len(signal_dfs)

\* C9: at each index the buy condition is "all inputs are +1" under the buy
\* operator AND and "some input is +1" under OR, the sell condition is the
\* same for -1 under the sell operator, and the two operators are independent.
C9_Masks ==
    Combined =>
        /\ Len(buy_mask) = bars(signal_dfs)
        /\ Len(sell_mask) = bars(signal_dfs)
        /\ \A i \in 1..bars(signal_dfs) :
            /\ buy_mask[i] <=>
                   IF buy_operator = "AND"
                   THEN \A k \in Strategies : signal_dfs[k][i] = 1
                   ELSE \E k \in Strategies : signal_dfs[k][i] = 1
            /\ sell_mask[i] <=>
                   IF sell_operator = "AND"
                   THEN \A k \in Strategies : signal_dfs[k][i] = -1
                   ELSE \E k \in Strategies : signal_dfs[k][i] = -1

\* Two series were combined with buy AND and sell OR; at one index one input
\* is -1 and the other is not (sell by OR, no sell by AND), at another both
\* are +1.
C9_Witness ==
    /\ Combined /\ Len(signal_dfs) = 2
    /\ buy_operator = "AND" /\ sell_operator = "OR"
    /\ \E i, j \in 1..bars(signal_dfs) :
        /\ signal_dfs[1][i] = -1 /\ signal_dfs[2][i] = 0
        /\ sell_mask[i] /\ ~buy_mask[i]
        /\ signal_dfs[1][j] = 1 /\ signal_dfs[2][j] = 1
        /\ buy_mask[j] /\ ~sell_mask[j]

\* C10: at an index where the buy and the sell condition both hold, the
\* output is -1.
C10_SellPrecedence ==
    Combined =>
        \A i \in 1..bars(signal_dfs) :
            (buy_mask[i] /\ sell_mask[i]) => final_signal[i] = -1

\* Two series were combined with OR on both sides; at one index one input is
\* +1 and the other -1, and the output is -1 there.
C10_Witness ==
    /\ Combined
    /\ buy_operator = "OR" /\ sell_operator = "OR"
    /\ \E i \in 1..bars(signal_dfs) :
        /\ \E k \in Strategies : signal_dfs[k][i] = 1
        /\ \E k \in Strategies : signal_dfs[k][i] = -1
        /\ buy_mask[i] /\ sell_mask[i]
        /\ final_signal[i] = -1

\* the last index up to i at which the buy or the sell condition holds, 0 if
\* there is none
LastResolved(i) ==
    LET resolved == {j \in 1..i : buy_mask[j] \/ sell_mask[j]}
    IN  IF resolved = {} THEN 0 ELSE CHOOSE j \in resolved : \A k \in resolved : k <= j

IsGet(op) == op.kind = "get"

\* the (name, value) pairs of a request, whatever their keyword order
RequestedParams(r) == {r.params[i] : i \in 1..Len(r.params)}

\* the entries whose series was computed for the strategy, the parameter set
\* and the close prices of request r
StoredFor(r, entries) ==
    {i \in 1..Len(entries) :
        /\ entries[i].signal.strategy_name = r.strategy_name
        /\ entries[i].signal.params = RequestedParams(r)
        /\ entries[i].signal.df.close_price = r.df.close_price}

\* C12: a get whose strategy, parameter set and close prices are those of an
\* entry still in the cache returns that entry's series, leaves the cache as
\* it is and does not call the strategy function: the call count stays.
C12_HitReturnsStored ==
    [][IsGet(last_get') =>
          LET stored == StoredFor(last_get'.request, cache)
          IN  stored # {} =>
                  /\ last_get'.hit
                  /\ \E i \in stored : last_get'.signal = cache[i].signal
                  /\ source_calls' = source_calls
                  /\ cache' = cache]_vars

\* a second get of the same strategy, parameters and frame was served from
\* the one entry the first get stored, after one strategy-function call
C12_Witness ==
    /\ IsGet(last_get)
    /\ last_get.hit
    /\ last_get.signal.df = last_get.request.df
    /\ source_calls = 1
    /\ Len(cache) = 1
    /\ cache[1].signal = last_get.signal

\* the key get computes for request r
KeyOf(r) == get_hash(r.strategy_name, r.params, get_df_hash(r.df))

\* C13: the key of a request is the key of a stored entry exactly when the
\* entry was computed for the same strategy, the same set of (name, value)
\* pairs in whatever keyword order and the same close prices; so a get for a
\* frame that differs from the frame of a stored entry only outside
\* close_price returns the series computed for that other frame, without a
\* strategy-function call.
C13_KeyIgnoresOtherColumns ==
    [][IsGet(last_get') =>
          LET r == last_get'.request
          IN  /\ \A i \in 1..Len(cache) :
                    cache[i].key = KeyOf(r) <=> i \in StoredFor(r, cache)
              /\ \A i \in StoredFor(r, cache) :
                    cache[i].signal.df # r.df =>
                        /\ last_get'.hit
                        /\ last_get'.signal = cache[i].signal
                        /\ source_calls' = source_calls]_vars

\* a get for a frame with other volumes was answered with the series computed
\* for the frame of the first get
C13_Witness ==
    /\ IsGet(last_get)
    /\ last_get.hit
    /\ last_get.request.df.close_price = last_get.signal.df.close_price
    /\ last_get.request.df.volume_crypto # last_get.signal.df.volume_crypto
    /\ source_calls = 1


\* C14: a get that misses while the cache holds max_size entries or more
\* removes the floor(max_size / 2) earliest-inserted entries and nothing
\* else, then inserts the new entry last: every later-inserted entry is kept
\* in its order and the new entry is present.
C14_EvictsOldestHalf ==
    [][(IsGet(last_get') /\ ~last_get'.hit /\ Len(cache) >= max_size) =>
          LET half == max_size \div 2
              r == last_get'.request
          IN  /\ Len(cache') = Len(cache) - half + 1
              /\ \A i \in 1..half :
                    \A j \in 1..Len(cache') : cache'[j].key # cache[i].key
              /\ \A i \in (half + 1)..Len(cache) : cache'[i - half] = cache[i]
              /\ cache'[Len(cache')].key = KeyOf(r)
              /\ cache'[Len(cache')].signal = last_get'.signal
              /\ last_get'.removed = [i \in 1..half |-> cache[i].key]]_vars

\* a miss on a full cache of two entries removed the first-inserted entry and
\* kept the second in front of the new one
C14_Witness ==
    /\ IsGet(last_get)
    /\ ~last_get.hit
    /\ max_size = 2
    /\ Len(last_get.removed) = 1
    /\ Len(cache) = 2
    /\ cache[1].key # last_get.removed[1]
    /\ cache[2].key = KeyOf(last_get.request)
    /\ source_calls = 3


\* C15: the cache never holds more than max_size entries.
C15_Bounded == Len(cache) <= max_size


(***************************************************************************)
(* Properties of generate_param_dicts.                                     *)
(***************************************************************************)
Generated == gpc = "done"
EmptyGrid == param_grid.is_none \/ param_grid.items = <<>>

\* C16: generate_param_dicts returns at least one dict for every grid, a
\* grid with an empty value list included, and the one empty dict for an
\* empty or missing grid.
C16_NeverEmpty ==
    Generated =>
        /\ Len(param_dicts) >= 1
        /\ EmptyGrid => param_dicts = << <<>> >>

\* the product of the lengths of the value lists from item i on
RECURSIVE LengthProduct(_)
LengthProduct(i) ==
    IF i > Len(param_grid.items) THEN 1
    ELSE Len(param_grid.items[i].values) * LengthProduct(i + 1)

ValuesOf(i) ==
    {param_grid.items[i].values[k] : k \in 1..Len(param_grid.items[i].values)}

\* C17: for a non-empty grid the result has one dict per value tuple: each
\* dict has the keys of the grid, in order, each mapped to a value of its
\* list; every choice of one value per key is made by exactly one dict; the
\* number of dicts is the product of the list lengths.
C17_CartesianProduct ==
    (Generated /\ ~EmptyGrid) =>
        LET n == Len(param_grid.items)
            choices == {c \in [1..n -> 1..MaxValues] : \A i \in 1..n : c[i] \in ValuesOf(i)}
        IN  /\ Len(param_dicts) = LengthProduct(1)
            /\ \A j \in 1..Len(param_dicts) :
                /\ Len(param_dicts[j]) = n
                /\ \A i \in 1..n :
                    /\ param_dicts[j][i][1] = param_grid.items[i].key
                    /\ param_dicts[j][i][2] \in ValuesOf(i)
            /\ \A c \in choices :
                Cardinality({j \in 1..Len(param_dicts) :
                                \A i \in 1..n : param_dicts[j][i][2] = c[i]}) = 1

\* two keys of two values each give the four dicts, the second key's value
\* advancing fastest
C17_Witness ==
    /\ Generated
    /\ param_grid.items = <<[key |-> "penalty_factor", values |-> <<1, 2>>],
                            [key |-> "min_holding_period", values |-> <<2, 1>>]>>
    /\ param_dicts =
        << << <<"penalty_factor", 1>>, <<"min_holding_period", 2>> >>,
           << <<"penalty_factor", 1>>, <<"min_holding_period", 1>> >>,
           << <<"penalty_factor", 2>>, <<"min_holding_period", 2>> >>,
           << <<"penalty_factor", 2>>, <<"min_holding_period", 1>> >> >>


(***************************************************************************)
(* Properties of the score.                                                *)
(***************************************************************************)
Scored == score.kind = "value"

\* the return of bar i under the signal of the bar before it
LaggedReturn(i) ==
    IF i = 1 THEN Zero
    ELSE RMul(FromInt(df.signal[i - 1]), precomputed_returns.values[i])

\* the sum of the lagged returns of bars 1..i, and of their squares
RECURSIVE LaggedSum(_)
LaggedSum(i) == IF i = 0 THEN Zero ELSE RAdd(LaggedSum(i - 1), LaggedReturn(i))

RECURSIVE LaggedSquares(_)
LaggedSquares(i) ==
    IF i = 0 THEN Zero
    ELSE RAdd(LaggedSquares(i - 1), RMul(LaggedReturn(i), LaggedReturn(i)))

SearchReturned == opc = "returned" /\ optimizer \in SequentialOptimizers

\* candidate c is reached before candidate d by the loops of the optimizer:
\* the meta-parameter loop is the outer one in optimize_strategy_combo, the
\* strategy-parameter loop in the other two
Before(c, d) ==
    IF optimizer = "optimize_strategy_combo"
    THEN c[2] < d[2] \/ (c[2] = d[2] /\ c[1] < d[1])
    ELSE c[1] < d[1] \/ (c[1] = d[1] /\ c[2] < d[2])

\* C19: a sequential search over at least one candidate returns the
\* parameters, score, final value and trade count of a candidate whose score
\* no candidate exceeds and which the loops reach before every other
\* candidate of the same score.
C19_FirstMaximum ==
    (SearchReturned /\ param_combinations # <<>>) =>
        /\ returned.params.kind = "dict"
        /\ LET c == returned.params.candidate
           IN  /\ c \in DOMAIN evaluations
               /\ returned.score = Finite(evaluations[c].score)
               /\ returned.final_portfolio = evaluations[c].final_portfolio
               /\ returned.num_trades = evaluations[c].num_trades
               /\ \A d \in DOMAIN evaluations :
                   /\ evaluations[d].score <= evaluations[c].score
                   /\ (d # c /\ evaluations[d].score = evaluations[c].score)
                          => Before(c, d)

\* optimize_strategy_combo over two parameter tuples and two meta dicts:
\* <<2, 1>> and <<1, 2>> tie for the best score 2, and <<2, 1>>, which the
\* meta-outer loops reach first, is returned
C19_Witness ==
    /\ SearchReturned
    /\ optimizer = "optimize_strategy_combo"
    /\ Len(param_combinations) = 4
    /\ evaluations[<<1, 1>>].score = 1
    /\ evaluations[<<2, 1>>].score = 2
    /\ evaluations[<<1, 2>>].score = 2
    /\ evaluations[<<2, 2>>].score = 1
    /\ returned.params = ParamsOf(<<2, 1>>)
    /\ returned.score = Finite(2)


Parallel == optimizer = "optimize_strategy_parallel"

\* the candidates whose future has completed, and those among them whose
\* evaluation did not raise
Completed ==
    {param_combinations[k] : k \in (1..Len(param_combinations)) \ futures}
Succeeded == {c \in Completed : ~worker_result(c).failed}

NumericBest(r) ==
    /\ "score" \in DOMAIN r
    /\ "final_portfolio" \in DOMAIN r
    /\ "num_trades" \in DOMAIN r

\* C21: when a search ends with no successfully scored candidate, what it
\* returns is an explicit no-result outcome: it carries no numeric score,
\* portfolio value and trade count that would read as a best candidate.
C21_ExplicitNoResult ==
    (Parallel /\ opc = "returned" /\ Succeeded = {}) => ~NumericBest(returned)


RECURSIVE collected_in_order(_)
\* the results collected when the first k futures complete in the order of
\* their submission
collected_in_order(k) ==
    IF k = 0 THEN <<>>
    ELSE collect(collected_in_order(k - 1), param_combinations[k],
                 worker_result(param_combinations[k]))

Improved == optimizer = "optimize_strategy_combo_improved"

\* the meta-parameter dicts whose backtest with the first parameter dict of
\* every strategy has a total_return above -0.1
AboveThreshold ==
    {m \in 1..MetaCount :
        /\ ~evaluations[<<1, m>>].failed
        /\ evaluations[<<1, m>>].total_return[1] * 10 > -evaluations[<<1, m>>].total_return[2]}

PromisingSet == IF AboveThreshold = {} THEN 1..MetaCount ELSE AboveThreshold

\* how many times candidate c was evaluated by the second pass
TimesEvaluated(c) == Cardinality({i \in 1..Len(evaluated) : evaluated[i] = c})

\* C23: once the first pass of optimize_strategy_combo_improved is over, the
\* promising meta-parameter dicts are exactly those whose backtest with the
\* first parameter dict of every strategy returned more than -0.1, or all of
\* them if there is none; when the search returns, every pair of a tuple of
\* the product and a promising dict was evaluated exactly once and no other
\* pair was, whatever the batch size, and the returned score, portfolio value
\* and trade count are those of an evaluated pair of the greatest score.
C23_PruneThenSearch ==
    (Improved /\ opc \in {"search", "returned"}) =>
        /\ {promising_meta_params[j] : j \in 1..Len(promising_meta_params)} = PromisingSet
        /\ Len(promising_meta_params) = Cardinality(PromisingSet)
        /\ opc = "returned" =>
            /\ \A c \in DOMAIN evaluations :
                TimesEvaluated(c) = IF c[2] \in PromisingSet THEN 1 ELSE 0
            /\ returned.params.kind = "dict"
            /\ returned.params.candidate[2] \in PromisingSet
            /\ LET out == evaluations[returned.params.candidate]
               IN  /\ returned.score = Finite(out.score)
                   /\ returned.final_portfolio = out.final_portfolio
                   /\ returned.num_trades = out.num_trades
                   /\ \A c \in DOMAIN evaluations :
                       c[2] \in PromisingSet => evaluations[c].score <= out.score

\* two tuples and two meta-parameter dicts, batches of one tuple: the first
\* dict returned exactly -0.1 with the first tuple and was dropped, so the
\* search evaluated the two tuples with the second dict only and returned
C23_Witness ==
    /\ Improved
    /\ opc = "returned"
    /\ Len(param_combinations) = 2
    /\ batch_size = 1
    /\ evaluations[<<1, 1>>].total_return = <<-1, 10>>
    /\ promising_meta_params = <<2>>
    /\ evaluated = << <<1, 2>>, <<2, 2>> >>


\* C24: on the inputs of a call the accelerated path returned from, the
\* reference path returns as well, and with the same total_return, final
\* portfolio value and number of trades.
C24_PathsAgree ==
    (Done /\ path = "optimized") =>
        /\ backtest_strategy_reference.raised = ""
        /\ backtest_strategy_reference.result.total_return = result.total_return
        /\ backtest_strategy_reference.result.final_portfolio_value
               = result.final_portfolio_value
        /\ backtest_strategy_reference.result.num_trades = result.num_trades


\* C25: in what a backtest leaves, the position and the position changes
\* agree: at every bar after the first, the change is nonzero iff the held
\* position differs from that of the bar before.
C25_ChangesMatchPositions ==
    Done =>
        \A i \in 2..df.len :
            (pos_change[i] # 0) <=> (position[i] # position[i - 1])


\* C26: the Sharpe term of a score is that of the lagged held position, the
\* position the candidate's backtest ended with after carrying signals
\* forward and enforcing the holding period, times the returns.
C26_SharpeOfHeldPosition ==
    Scored =>
        score.sharpe = sharpe_of(lagged_returns(position, precomputed_returns.values))


\* the min_holding_period stored in the best meta-parameters of a row
StoredHolding(r) ==
    IF r.StrategyType = "single"
    THEN r.BestParams.meta_params.min_holding_period
    ELSE r.BestParams.Meta.min_holding_period

\* C27: the test-set backtest of a row of train_results, single or combo,
\* runs with the min_holding_period stored in the row's best meta-parameters.
C27_TestUsesStoredHolding ==
    (row # NoResult /\ pc \in {"call", "done"}) =>
        min_holding_period = StoredHolding(row)


\* what optimize_strategy gives on the candidates and evaluations of the
\* parallel search
Sequential ==
    sequential_search("optimize_strategy", param_combinations, evaluations)

\* C28: when optimize_strategy_parallel returns on candidates whose sequential
\* search returns, the two return the same score, final portfolio value and
\* trade count.
C28_ParallelMatchesSequential ==
    (Parallel /\ opc = "returned" /\ ~Sequential.raised) =>
        /\ returned.score = Sequential.best.score
        /\ returned.final_portfolio = Sequential.best.final_portfolio
        /\ returned.num_trades = Sequential.best.num_trades


\* what the exhaustive optimize_strategy_combo gives on the same product of
\* parameter dicts and the same evaluations
Exhaustive ==
    sequential_search("optimize_strategy_combo",
                      meta_outer(Len(param_combinations)), evaluations)

\* C29: when the pruned search returns and the exhaustive search of the same
\* candidates returns, the pruned best score is at most the exhaustive best
\* score, and the two return the same parameters, score, portfolio value and
\* trade count if every meta-parameter dict is promising or none is; the
\* pruned search raises only if the exhaustive one does.
C29_PrunedBelowExhaustive ==
    /\ (Improved /\ opc = "raised") => Exhaustive.raised
    /\ (Improved /\ opc = "returned" /\ ~Exhaustive.raised) =>
        /\ greater_or_equal(Exhaustive.best.score, returned.score)
        /\ AboveThreshold \in {{}, 1..MetaCount} => returned = Exhaustive.best

\* the first meta-parameter dict was dropped by the first pass and held the
\* candidate of the greatest score: the pruned search returned a score of 2
\* where the exhaustive search returns 3
C29_Witness ==
    /\ Improved
    /\ opc = "returned"
    /\ Len(param_combinations) = 2
    /\ promising_meta_params = <<2>>
    /\ ~Exhaustive.raised
    /\ Exhaustive.best.score = Finite(3)
    /\ Exhaustive.best.params = ParamsOf(<<1, 1>>)
    /\ returned.score = Finite(2)


Singles == optimizer = "optimize_single_strategies" /\ opc \in {"singles", "raised", "returned"}

\* C30: with the shipped grid no candidate of optimize_single_strategies
\* fails on dispatch, and what the function returns is one row for each of
\* the eight registered strategies.
C30_EveryStrategyDispatches ==
    Singles =>
        /\ opc # "raised"
        /\ opc = "returned" => results = STRATEGY_FUNCTIONS


=============================================================================
